---- MODULE Spec2Model ----
(***************************************************************************)
(* Model of the delivery-realtime relay (src/src/index.ts): the in-memory  *)
(* Order Store and Location Cache, socket.io room membership, and one      *)
(* action per socket event handler.  Each handler runs to completion       *)
(* (Node's single-threaded event loop), so each is one atomic action.      *)
(***************************************************************************)
EXTENDS Integers, Sequences, FiniteSets, TLC

VARIABLES
    orders,               \* Map<string, Order>, as the sequence of its values in insertion order
    lastLocationByOrder,  \* Map<string, Omit<LocationPing,"orderId">>, as a function on its keys
    reports,              \* how many reports each cache entry has been written with
    writes,               \* how many times order:status has written each stored order
    replica,              \* what every member of admins has last been shown of the store
    rooms,                \* socket.rooms of every connection (set of room names)
    connState,            \* "new" | "connected" | "disconnected"
    handshake,            \* socket.handshake.query.role of every open connection
    announced,            \* identifiers of the orders every open connection has been sent
    issued,               \* identifiers uuid() has returned so far
    now,                  \* the wall clock read by Date.now()
    crashed,              \* an uncaught exception has ended the process
    nEvents,              \* number of inbound events processed
    last,                 \* the step taken last: event name, socket used, argument
    sent                  \* messages delivered to every connection by the step taken last

vars == <<orders, lastLocationByOrder, reports, writes, replica, rooms, connState, handshake, announced,
          issued, now, crashed, nEvents, last, sent>>

----------------------------------------------------------------------------
\* Bounds of the model

MaxEvents == 4
MaxTime == 1

\* the connections, named in the order in which they arrive
ConnOrder == <<"c1", "c2">>
Conns == {ConnOrder[i] : i \in 1..Len(ConnOrder)}
IdPool == <<"o1", "o2">>
IDs == {IdPool[i] : i \in 1..Len(IdPool)}
CourierIds == {"k1"}

----------------------------------------------------------------------------
\* JavaScript values: every value carries its typeof tag

Undef == [t |-> "undefined"]
Str(s) == [t |-> "string", s |-> s]
Num(n) == [t |-> "number", n |-> n]

TypeOf(v) == v.t

\* !v
Falsy(v) ==
    \/ v.t = "undefined"
    \/ (v.t = "string" /\ v.s = "")
    \/ (v.t = "number" /\ v.n = 0)

\* v.k for a value that is not undefined: a property a primitive or an
\* object does not have reads as undefined
Prop(v, k) == IF v.t = "object" /\ k \in DOMAIN v THEN v[k] ELSE Undef

\* v.k, or destructuring {k} from v, raises a TypeError when v is undefined
Throws(v) == v.t = "undefined"

\* `${v}`
TemplateStr(v) ==
    CASE v.t = "string" -> v.s
      [] v.t = "number" -> ToString(v.n)
      [] v.t = "undefined" -> "undefined"
      [] OTHER -> "[object Object]"

----------------------------------------------------------------------------
\* Rooms

AdminsRoom == "admins"
CourierRoom(courierId) == "courier:" \o TemplateStr(courierId)
\* every watcher shares one room
OrderRoom_Shared(orderId) == "order:"
OrderRoom(orderId) == "order:" \o TemplateStr(orderId)

\* the connections io.to(room).emit reaches
To(room) == {c \in Conns : connState[c] = "connected" /\ room \in rooms[c]}

\* the JSON encoding of an object drops the properties whose value is undefined
WireObj(v) == [k \in {j \in DOMAIN v : j = "t" \/ v[j] # Undef} |-> v[k]]

\* the payload of a message as encoded when emit is called
Wire(v) ==
    CASE v.t = "object" -> WireObj(v)
      [] v.t = "array" -> [t |-> "array", items |-> [i \in DOMAIN v.items |-> WireObj(v.items[i])]]
      [] OTHER -> v

\* an emit call: the set of connections reached and the message
Emit(to, ev, data) == [to |-> to, msg |-> [ev |-> ev, data |-> Wire(data)]]

RECURSIVE Deliveries(_, _)
Deliveries(c, emits) ==
    IF emits = <<>> THEN <<>>
    ELSE (IF c \in Head(emits).to THEN <<Head(emits).msg>> ELSE <<>>)
         \o Deliveries(c, Tail(emits))

\* the orders a sequence of messages tells its receiver of: those listed
\* by orders:snapshot and those carried by order:created
Announces(msgs) ==
    UNION {IF msgs[i].ev = "orders:snapshot"
           THEN {msgs[i].data.items[j].id.s : j \in DOMAIN msgs[i].data.items}
           ELSE IF msgs[i].ev = "order:created" THEN {msgs[i].data.id.s} ELSE {}
           : i \in DOMAIN msgs}

\* what a receiver has been shown of the store: the identifiers listed by
\* the orders:snapshot it received last, and for every order the object
\* that the last message carrying the order showed
NoReplica == [ids |-> {}, shown |-> <<>>]

\* the replica r after the message m
ShownBy(r, m) ==
    CASE m.ev = "orders:snapshot" ->
            [ids |-> {m.data.items[j].id.s : j \in DOMAIN m.data.items},
             shown |-> [id \in {m.data.items[j].id.s : j \in DOMAIN m.data.items} |->
                          m.data.items[CHOOSE j \in DOMAIN m.data.items :
                                          m.data.items[j].id.s = id]]]
      [] m.ev \in {"order:created", "order:updated", "order:assigned"} ->
            [ids |-> r.ids,
             shown |-> [id \in (DOMAIN r.shown) \cup {m.data.id.s} |->
                          IF id = m.data.id.s THEN m.data ELSE r.shown[id]]]
      [] OTHER -> r

\* the replica r after the messages msgs, oldest first
RECURSIVE Shown(_, _)
Shown(r, msgs) ==
    IF msgs = <<>> THEN r ELSE Shown(ShownBy(r, Head(msgs)), Tail(msgs))

----------------------------------------------------------------------------
\* The Order Store (a JavaScript Map keeps insertion order)

OrderIds == {orders[i].id.s : i \in 1..Len(orders)}

\* orders.has(key)
OrdersHas(key) == key.t = "string" /\ key.s \in OrderIds

\* orders.get(key)
OrdersGet(key) ==
    IF OrdersHas(key)
    THEN orders[CHOOSE i \in 1..Len(orders) : orders[i].id.s = key.s]
    ELSE Undef

\* orders.set(id, o)
OrdersSet(o) ==
    IF o.id.s \in OrderIds
    THEN [i \in 1..Len(orders) |-> IF orders[i].id.s = o.id.s THEN o ELSE orders[i]]
    ELSE Append(orders, o)

\* orders.delete(id)
OrdersDelete(id) == SelectSeq(orders, LAMBDA o : o.id.s # id)

\* [...orders.values()]
Snapshot(os) == [t |-> "array", items |-> os]

\* the cache entry of a deleted order is kept
LocDelete_Keep(id) == lastLocationByOrder

\* lastLocationByOrder.delete(id)
LocDelete(id) ==
    [k \in (DOMAIN lastLocationByOrder) \ {id} |-> lastLocationByOrder[k]]

\* lastLocationByOrder.set(id, loc)
LocSet(id, loc) ==
    [k \in (DOMAIN lastLocationByOrder) \cup {id} |->
        IF k = id THEN loc ELSE lastLocationByOrder[k]]

----------------------------------------------------------------------------
\* Inputs

HandshakeRoles == {Str("admin"), Undef}

ValidCreate ==
    [t |-> "object", customerName |-> Str("Ann"), address |-> Str("1 Main St"),
     lat |-> Num(1), lng |-> Num(2)]

CreatePayloads ==
    { ValidCreate,
      [ValidCreate EXCEPT !.lat = Str("1.0")],
      Undef }

StatusPayloads ==
    {[t |-> "object", orderId |-> Str(id), status |-> Str("READY_FOR_PICKUP")] : id \in IDs}
    \cup {[t |-> "object", orderId |-> Str("o1"), status |-> Str("bogus")], Undef}

AssignPayloads ==
    {[t |-> "object", orderId |-> Str(id), courierId |-> Str(k)] : id \in IDs, k \in CourierIds}
    \cup {[t |-> "object", orderId |-> Str("o1"), courierId |-> Str("")], Undef}

Ping1(id) ==
    [t |-> "object", orderId |-> Str(id), courierId |-> Str("k1"),
     lat |-> Num(1), lng |-> Num(2), heading |-> Num(90), speed |-> Num(5), ts |-> Num(1)]

Ping2(id) ==
    [t |-> "object", orderId |-> Str(id), courierId |-> Str("k1"),
     lat |-> Num(3), lng |-> Num(4), ts |-> Num(2)]

Pings == {Ping1(id) : id \in IDs} \cup {Ping2("o1"), Undef}

DeletePayloads == {[t |-> "object", orderId |-> Str(id)] : id \in IDs} \cup {Undef}

JoinArgs == {Str(k) : k \in CourierIds} \cup {Str("")}
WatchArgs == {Str(id) : id \in IDs} \cup {Str("")}

----------------------------------------------------------------------------
\* Steps

NoSent == [c \in Conns |-> <<>>]

Init ==
    /\ orders = <<>>
    /\ lastLocationByOrder = <<>>
    /\ reports = <<>>
    /\ writes = <<>>
    /\ replica = [c \in Conns |-> NoReplica]
    /\ rooms = [c \in Conns |-> {}]
    /\ connState = [c \in Conns |-> "new"]
    /\ handshake = [c \in Conns |-> Undef]
    /\ announced = [c \in Conns |-> {}]
    /\ issued = {}
    /\ now = 0
    /\ crashed = FALSE
    /\ nEvents = 0
    /\ last = [ev |-> "init", conn |-> "none", arg |-> Undef]
    /\ sent = NoSent

\* the emit calls of a handler, in call order, reach the connections;
\* admins is the set of members of the admins room when they are made
Post(emits, admins) ==
    /\ sent' = [c \in Conns |-> Deliveries(c, emits)]
    /\ announced' = [c \in Conns |-> announced[c] \cup Announces(Deliveries(c, emits))]
    /\ replica' = [c \in Conns |->
                     IF c \in admins THEN Shown(replica[c], Deliveries(c, emits))
                     ELSE replica[c]]

Send(emits) == Post(emits, To(AdminsRoom))

\* the events whose handler uses the socket they arrived on
SocketEvents == {"courier:join", "order:watch"}

\* an inbound event ev(arg) on connection c starts being handled; the other
\* handlers never refer to the socket, so for them no connection is recorded
Accept(c, ev, arg) ==
    /\ ~crashed
    /\ connState[c] = "connected"
    /\ nEvents < MaxEvents
    /\ nEvents' = nEvents + 1
    /\ last' = [ev |-> ev, conn |-> IF ev \in SocketEvents THEN c ELSE "any", arg |-> arg]
    /\ UNCHANGED <<connState, handshake>>

\* the handler returns early
Return ==
    /\ Send(<<>>)
    /\ UNCHANGED <<orders, writes, lastLocationByOrder, reports, rooms, issued, now, crashed>>

\* the handler raises: nothing catches it and the process ends
Throw ==
    /\ Send(<<>>)
    /\ crashed' = TRUE
    /\ UNCHANGED <<orders, writes, lastLocationByOrder, reports, rooms, issued, now>>

\* a handshake without a role counts as admin
RoleOf_DefaultAdmin(role) ==
    IF role = Undef THEN "admin" ELSE IF Falsy(role) THEN "guest" ELSE role.s

\* the role read from the handshake: (query.role as string) || "guest"
RoleOf(role) == IF Falsy(role) THEN "guest" ELSE role.s

\* the admin that connected is sent no snapshot
ConnectEmits_None(c) == <<>>

\* socket.emit("orders:snapshot", ...) to the admin that connected
ConnectEmits(c) == <<Emit({c}, "orders:snapshot", Snapshot(orders))>>

\* io.on("connection")
Connect(c, role) ==
    /\ ~crashed
    /\ connState[c] = "new"
    /\ \A i \in 1..Len(ConnOrder) :
          ConnOrder[i] = c => \A j \in 1..(i - 1) : connState[ConnOrder[j]] # "new"
    /\ connState' = [connState EXCEPT ![c] = "connected"]
    /\ handshake' = [handshake EXCEPT ![c] = role]
    /\ last' = [ev |-> "connection", conn |-> c, arg |-> role]
    /\ IF RoleOf(role) = "admin"
       THEN /\ rooms' = [rooms EXCEPT ![c] = @ \cup {AdminsRoom}]
            /\ Post(ConnectEmits(c), To(AdminsRoom) \cup {c})
       ELSE /\ rooms' = rooms
            /\ Send(<<>>)
    /\ UNCHANGED <<orders, writes, lastLocationByOrder, reports, issued, now, crashed, nEvents>>

\* a disconnect after which the socket is still listed in its rooms
Disconnect_KeepRooms(c) ==
    /\ ~crashed
    /\ connState[c] = "connected"
    /\ connState' = [connState EXCEPT ![c] = "disconnected"]
    /\ handshake' = [handshake EXCEPT ![c] = Undef]
    /\ announced' = [announced EXCEPT ![c] = {}]
    /\ replica' = [replica EXCEPT ![c] = NoReplica]
    /\ sent' = NoSent
    /\ last' = [ev |-> "disconnect", conn |-> c, arg |-> Undef]
    /\ UNCHANGED <<orders, writes, lastLocationByOrder, reports, rooms, issued, now, crashed, nEvents>>

\* socket.on("disconnect"): the handler does nothing; the socket has left its rooms
Disconnect(c) ==
    /\ ~crashed
    /\ connState[c] = "connected"
    /\ connState' = [connState EXCEPT ![c] = "disconnected"]
    /\ rooms' = [rooms EXCEPT ![c] = {}]
    /\ handshake' = [handshake EXCEPT ![c] = Undef]
    /\ announced' = [announced EXCEPT ![c] = {}]
    /\ replica' = [replica EXCEPT ![c] = NoReplica]
    /\ sent' = NoSent
    /\ last' = [ev |-> "disconnect", conn |-> c, arg |-> Undef]
    /\ UNCHANGED <<orders, writes, lastLocationByOrder, reports, issued, now, crashed, nEvents>>

\* socket.on("courier:join")
CourierJoin(c, courierId) ==
    /\ Accept(c, "courier:join", courierId)
    /\ IF Falsy(courierId)
       THEN Return
       ELSE /\ rooms' = [rooms EXCEPT ![c] = @ \cup {CourierRoom(courierId)}]
            /\ Send(<<>>)
            /\ UNCHANGED <<orders, writes, lastLocationByOrder, reports, issued, now, crashed>>

\* lastLocationByOrder.has(key)
LocHas(key) == key.t = "string" /\ key.s \in DOMAIN lastLocationByOrder

\* { orderId, ...loc }
Backfill(orderId, loc) ==
    [t |-> "object", orderId |-> orderId, courierId |-> loc.courierId,
     lat |-> loc.lat, lng |-> loc.lng, heading |-> loc.heading,
     speed |-> loc.speed, ts |-> loc.ts]

\* if (loc) socket.emit("location:delta", { orderId, ...loc })
WatchEmits(c, orderId) ==
    IF LocHas(orderId)
    THEN <<Emit({c}, "location:delta", Backfill(orderId, lastLocationByOrder[orderId.s]))>>
    ELSE <<>>

\* socket.on("order:watch")
OrderWatch(c, orderId) ==
    /\ Accept(c, "order:watch", orderId)
    /\ IF Falsy(orderId)
       THEN Return
       ELSE /\ rooms' = [rooms EXCEPT ![c] = @ \cup {OrderRoom(orderId)}]
            /\ Send(WatchEmits(c, orderId))
            /\ UNCHANGED <<orders, writes, lastLocationByOrder, reports, issued, now, crashed>>

\* the precondition of order:create
CreateRejects(payload) ==
    \/ Falsy(payload)
    \/ TypeOf(Prop(payload, "customerName")) # "string"
    \/ TypeOf(Prop(payload, "address")) # "string"
    \/ TypeOf(Prop(payload, "lat")) # "number"
    \/ TypeOf(Prop(payload, "lng")) # "number"

\* uuid(): an identifier never returned before
Uuid == {IdPool[i] : i \in {j \in 1..Len(IdPool) : j = Cardinality(issued) + 1}}

\* Date.now(): the clock does not run backwards
DateNow == {t \in now..(now + 1) : t <= MaxTime}

\* the Order built with a status other than CREATED
NewOrder_Preparing(id, payload, t) ==
    [t |-> "object", id |-> Str(id),
     customerName |-> Prop(payload, "customerName"),
     address |-> Prop(payload, "address"),
     lat |-> Prop(payload, "lat"), lng |-> Prop(payload, "lng"),
     status |-> Str("PREPARING"), courierId |-> Undef, createdAt |-> Num(t)]

\* the Order built by order:create
NewOrder(id, payload, t) ==
    [t |-> "object", id |-> Str(id),
     customerName |-> Prop(payload, "customerName"),
     address |-> Prop(payload, "address"),
     lat |-> Prop(payload, "lat"), lng |-> Prop(payload, "lng"),
     status |-> Str("CREATED"), courierId |-> Undef, createdAt |-> Num(t)]

\* the snapshot is emitted before order:created
CreateEmits_SnapshotFirst(order, os) ==
    <<Emit(To(AdminsRoom), "orders:snapshot", Snapshot(os)),
      Emit(To(AdminsRoom), "order:created", order)>>

\* the two emits of order:create; os is the store after the insertion
CreateEmits(order, os) ==
    <<Emit(To(AdminsRoom), "order:created", order),
      Emit(To(AdminsRoom), "orders:snapshot", Snapshot(os))>>

\* socket.on("order:create")
OrderCreate(c, payload) ==
    /\ Accept(c, "order:create", payload)
    /\ IF CreateRejects(payload)
       THEN Return
       ELSE \E id \in Uuid, t \in DateNow :
              LET order == NewOrder(id, payload, t)
                  os == OrdersSet(order)
              IN /\ issued' = issued \cup {id}
                 /\ now' = t
                 /\ orders' = os
                 /\ Send(CreateEmits(order, os))
                 /\ UNCHANGED <<lastLocationByOrder, reports, writes, rooms, crashed>>

\* order:status without its existence check
StatusDrops_Never(o) == FALSE

\* if (!o) return
StatusDrops(o) == Falsy(o)

\* the status is written only when it is one of the seven lifecycle values
StatusWrite_Validated(o, status) ==
    IF status \in {Str("CREATED"), Str("PREPARING"), Str("READY_FOR_PICKUP"), Str("ASSIGNED"),
                   Str("PICKED_UP"), Str("EN_ROUTE"), Str("DELIVERED")}
    THEN [o EXCEPT !.status = status]
    ELSE o

\* o.status = status
StatusWrite(o, status) == [o EXCEPT !.status = status]

\* order:status has written the stored order id once more
Written(id) ==
    [k \in (DOMAIN writes) \cup {id} |->
        IF k # id THEN writes[k] ELSE IF id \in DOMAIN writes THEN writes[id] + 1 ELSE 1]

\* the two emits of order:status made before the write: they carry the
\* order as the store held it
StatusEmits_Stale(orderId, o) ==
    <<Emit(To(AdminsRoom), "order:updated", OrdersGet(orderId)),
      Emit(To(OrderRoom(orderId)), "order:updated", OrdersGet(orderId))>>

\* the two emits of order:status
StatusEmits(orderId, o) ==
    <<Emit(To(AdminsRoom), "order:updated", o),
      Emit(To(OrderRoom(orderId)), "order:updated", o)>>

\* socket.on("order:status")
OrderStatus(c, payload) ==
    /\ Accept(c, "order:status", payload)
    /\ IF Throws(payload)
       THEN Throw
       ELSE LET orderId == Prop(payload, "orderId")
                status == Prop(payload, "status")
                found == OrdersGet(orderId)
            IN IF StatusDrops(found)
               THEN Return
               ELSE IF Throws(found)
               THEN Throw
               ELSE LET o == StatusWrite(found, status)
                    IN /\ orders' = OrdersSet(o)
                       /\ writes' = Written(TemplateStr(orderId))
                       /\ Send(StatusEmits(orderId, o))
                       /\ UNCHANGED <<lastLocationByOrder, reports, rooms, issued, now, crashed>>

\* the assignment advances the status whatever it was
AssignStatus_Always(status) == Str("ASSIGNED")

\* o.status === "READY_FOR_PICKUP" ? "ASSIGNED" : o.status
AssignStatus(status) ==
    IF status = Str("READY_FOR_PICKUP") THEN Str("ASSIGNED") ELSE status

\* if (!o || !courierId) return
AssignDrops(o, courierId) == Falsy(o) \/ Falsy(courierId)

\* the three emits of order:assign
AssignEmits(orderId, courierId, o) ==
    <<Emit(To(CourierRoom(courierId)), "order:assigned", o),
      Emit(To(AdminsRoom), "order:updated", o),
      Emit(To(OrderRoom(orderId)), "order:updated", o)>>

\* socket.on("order:assign")
OrderAssign(c, payload) ==
    /\ Accept(c, "order:assign", payload)
    /\ IF Throws(payload)
       THEN Throw
       ELSE LET orderId == Prop(payload, "orderId")
                courierId == Prop(payload, "courierId")
                found == OrdersGet(orderId)
            IN IF AssignDrops(found, courierId)
               THEN Return
               ELSE IF Throws(found)
               THEN Throw
               ELSE LET o == [found EXCEPT
                                !.courierId = courierId,
                                !.status = AssignStatus(@)]
                    IN /\ orders' = OrdersSet(o)
                       /\ Send(AssignEmits(orderId, courierId, o))
                       /\ UNCHANGED <<lastLocationByOrder, reports, writes, rooms, issued, now, crashed>>

\* the report is merged into the cached one: fields it lacks keep their old value
LocOf_Merge(ping) ==
    LET id == TemplateStr(Prop(ping, "orderId"))
        Merged(k) == IF Prop(ping, k) = Undef /\ id \in DOMAIN lastLocationByOrder
                     THEN lastLocationByOrder[id][k] ELSE Prop(ping, k)
    IN [courierId |-> Merged("courierId"), lat |-> Merged("lat"),
        lng |-> Merged("lng"), heading |-> Merged("heading"),
        speed |-> Merged("speed"), ts |-> Merged("ts")]

\* the value location:update stores: the six report fields, without orderId
LocOf(ping) ==
    [courierId |-> Prop(ping, "courierId"), lat |-> Prop(ping, "lat"),
     lng |-> Prop(ping, "lng"), heading |-> Prop(ping, "heading"),
     speed |-> Prop(ping, "speed"), ts |-> Prop(ping, "ts")]

\* one more report has been written to the cache entry of the order id
Counted(id) ==
    [k \in (DOMAIN reports) \cup {id} |->
        IF k # id THEN reports[k] ELSE IF id \in DOMAIN reports THEN reports[id] + 1 ELSE 1]

\* location:update without its existence check
LocationDrops_Never(o) == FALSE

\* if (!o) return
LocationDrops(o) == Falsy(o)

\* location:update emits once, to the union of the two rooms
LocationEmits_Once(orderId, ping) ==
    <<Emit(To(OrderRoom(orderId)) \cup To(AdminsRoom), "location:delta", ping)>>

\* the two emits of location:update
LocationEmits(orderId, ping) ==
    <<Emit(To(OrderRoom(orderId)), "location:delta", ping),
      Emit(To(AdminsRoom), "location:delta", ping)>>

\* socket.on("location:update")
LocationUpdate(c, ping) ==
    /\ Accept(c, "location:update", ping)
    /\ IF Throws(ping)
       THEN Throw
       ELSE LET orderId == Prop(ping, "orderId")
            IN IF LocationDrops(OrdersGet(orderId))
               THEN Return
               ELSE /\ lastLocationByOrder' = LocSet(TemplateStr(orderId), LocOf(ping))
                    /\ reports' = Counted(TemplateStr(orderId))
                    /\ Send(LocationEmits(orderId, ping))
                    /\ UNCHANGED <<orders, writes, rooms, issued, now, crashed>>

\* order:delete without its existence check
DeleteDrops_Never(orderId) == FALSE

\* if (!orders.has(orderId)) return
DeleteDrops(orderId) == ~OrdersHas(orderId)

\* order:delete without its closing orders:snapshot
DeleteEmits_NoSnapshot(orderId, os) ==
    <<Emit(To(AdminsRoom), "order:deleted", [t |-> "object", id |-> orderId]),
      Emit(To(OrderRoom(orderId)), "order:deleted", [t |-> "object", id |-> orderId])>>

\* the three emits of order:delete; os is the store after the removal
DeleteEmits(orderId, os) ==
    <<Emit(To(AdminsRoom), "order:deleted", [t |-> "object", id |-> orderId]),
      Emit(To(OrderRoom(orderId)), "order:deleted", [t |-> "object", id |-> orderId]),
      Emit(To(AdminsRoom), "orders:snapshot", Snapshot(os))>>

\* socket.on("order:delete")
OrderDelete(c, payload) ==
    /\ Accept(c, "order:delete", payload)
    /\ IF Throws(payload)
       THEN Throw
       ELSE LET orderId == Prop(payload, "orderId")
            IN IF DeleteDrops(orderId)
               THEN Return
               ELSE LET os == OrdersDelete(TemplateStr(orderId))
                    IN /\ orders' = os
                       /\ lastLocationByOrder' = LocDelete(TemplateStr(orderId))
                       /\ reports' = [k \in (DOMAIN reports) \ {TemplateStr(orderId)} |-> reports[k]]
                       /\ writes' = [k \in (DOMAIN writes) \ {TemplateStr(orderId)} |-> writes[k]]
                       /\ Send(DeleteEmits(orderId, os))
                       /\ UNCHANGED <<rooms, issued, now, crashed>>

Next ==
    \/ \E c \in Conns, role \in HandshakeRoles : Connect(c, role)
    \/ \E c \in Conns : Disconnect(c)
    \/ \E c \in Conns, courierId \in JoinArgs : CourierJoin(c, courierId)
    \/ \E c \in Conns, orderId \in WatchArgs : OrderWatch(c, orderId)
    \/ \E c \in Conns, payload \in CreatePayloads : OrderCreate(c, payload)
    \/ \E c \in Conns, payload \in StatusPayloads : OrderStatus(c, payload)
    \/ \E c \in Conns, payload \in AssignPayloads : OrderAssign(c, payload)
    \/ \E c \in Conns, ping \in Pings : LocationUpdate(c, ping)
    \/ \E c \in Conns, payload \in DeletePayloads : OrderDelete(c, payload)

Spec == Init /\ [][Next]_vars

----------------------------------------------------------------------------
\* The second copy of the server kept in the repository: the same state, the
\* same rooms and messages, the same handlers for connection, order:status,
\* location:update, order:delete and disconnect, and four handlers that act
\* on their argument before looking at it.

\* socket.on("courier:join"): the room is joined whatever courierId is
LegacyCourierJoin(c, courierId) ==
    /\ Accept(c, "courier:join", courierId)
    /\ rooms' = [rooms EXCEPT ![c] = @ \cup {CourierRoom(courierId)}]
    /\ Send(<<>>)
    /\ UNCHANGED <<orders, writes, lastLocationByOrder, reports, issued, now, crashed>>

\* socket.on("order:watch"): the room is joined whatever orderId is
LegacyOrderWatch(c, orderId) ==
    /\ Accept(c, "order:watch", orderId)
    /\ rooms' = [rooms EXCEPT ![c] = @ \cup {OrderRoom(orderId)}]
    /\ Send(WatchEmits(c, orderId))
    /\ UNCHANGED <<orders, writes, lastLocationByOrder, reports, issued, now, crashed>>

\* socket.on("order:create"): the fields are copied as they come; reading
\* payload.customerName of an absent payload is a TypeError
LegacyOrderCreate(c, payload) ==
    /\ Accept(c, "order:create", payload)
    /\ IF Throws(payload)
       THEN Throw
       ELSE \E id \in Uuid, t \in DateNow :
              LET order == NewOrder(id, payload, t)
                  os == OrdersSet(order)
              IN /\ issued' = issued \cup {id}
                 /\ now' = t
                 /\ orders' = os
                 /\ Send(CreateEmits(order, os))
                 /\ UNCHANGED <<lastLocationByOrder, reports, writes, rooms, crashed>>

\* if (!o) return
LegacyAssignDrops(o) == Falsy(o)

\* socket.on("order:assign"): courierId is stored whatever it is
LegacyOrderAssign(c, payload) ==
    /\ Accept(c, "order:assign", payload)
    /\ IF Throws(payload)
       THEN Throw
       ELSE LET orderId == Prop(payload, "orderId")
                courierId == Prop(payload, "courierId")
                found == OrdersGet(orderId)
            IN IF LegacyAssignDrops(found)
               THEN Return
               ELSE LET o == [found EXCEPT
                                !.courierId = courierId,
                                !.status = AssignStatus(@)]
                    IN /\ orders' = OrdersSet(o)
                       /\ Send(AssignEmits(orderId, courierId, o))
                       /\ UNCHANGED <<lastLocationByOrder, reports, writes, rooms, issued, now, crashed>>

LegacyNext ==
    \/ \E c \in Conns, role \in HandshakeRoles : Connect(c, role)
    \/ \E c \in Conns : Disconnect(c)
    \/ \E c \in Conns, courierId \in JoinArgs : LegacyCourierJoin(c, courierId)
    \/ \E c \in Conns, orderId \in WatchArgs : LegacyOrderWatch(c, orderId)
    \/ \E c \in Conns, payload \in CreatePayloads : LegacyOrderCreate(c, payload)
    \/ \E c \in Conns, payload \in StatusPayloads : OrderStatus(c, payload)
    \/ \E c \in Conns, payload \in AssignPayloads : LegacyOrderAssign(c, payload)
    \/ \E c \in Conns, ping \in Pings : LocationUpdate(c, ping)
    \/ \E c \in Conns, payload \in DeletePayloads : OrderDelete(c, payload)

SpecLegacy == Init /\ [][LegacyNext]_vars

----------------------------------------------------------------------------
\* Vocabulary of the properties

IsObj(p) == p.t = "object"
HasStr(p, k) == k \in DOMAIN p /\ p[k].t = "string"
HasNum(p, k) == k \in DOMAIN p /\ p[k].t = "number"

\* the field k of an object, undefined when the object does not have it
Field(p, k) == IF k \in DOMAIN p THEN p[k] ELSE Undef

ValidCreatePayload(p) ==
    /\ IsObj(p)
    /\ HasStr(p, "customerName") /\ HasStr(p, "address")
    /\ HasNum(p, "lat") /\ HasNum(p, "lng")

IdsOf(os) == {os[i].id.s : i \in 1..Len(os)}
OrderOf(os, id) == os[CHOOSE i \in 1..Len(os) : os[i].id.s = id]

InAdmins(c) == connState[c] = "connected" /\ "admins" \in rooms[c]
Watching(c, id) == connState[c] = "connected" /\ ("order:" \o id) \in rooms[c]

\* the received object data shows exactly the defined fields of the record o
Carries(data, o) ==
    /\ IsObj(data)
    /\ DOMAIN data \subseteq DOMAIN o
    /\ \A k \in (DOMAIN o) \ {"t"} :
          IF o[k] = Undef THEN k \notin DOMAIN data
          ELSE k \in DOMAIN data /\ data[k] = o[k]

\* the message m is orders:snapshot listing the orders os, in order
IsSnapshotOf(m, os) ==
    /\ m.ev = "orders:snapshot"
    /\ Len(m.data.items) = Len(os)
    /\ \A i \in 1..Len(os) : Carries(m.data.items[i], os[i])

\* the message m is the event ev carrying the order o
IsOrderMsg(m, ev, o) == m.ev = ev /\ Carries(m.data, o)

Silent == \A c \in Conns : sent[c] = <<>>

----------------------------------------------------------------------------
\* C1: an order:create with a valid payload adds exactly one order to the
\* store, at the end; its identifier is not one the store already had, its
\* status is CREATED, its createdAt is not earlier than the time the event
\* was accepted; the orders the store already had are unchanged.
C1_CreateAddsFreshOrder ==
    [][(last'.ev = "order:create" /\ ValidCreatePayload(last'.arg)) =>
          /\ Len(orders') = Len(orders) + 1
          /\ \A i \in 1..Len(orders) : orders'[i] = orders[i]
          /\ LET o == orders'[Len(orders')]
             IN /\ o.id.s \notin IdsOf(orders)
                /\ o.status = Str("CREATED")
                /\ o.createdAt.t = "number" /\ o.createdAt.n >= now
                /\ o.customerName = last'.arg.customerName
                /\ o.address = last'.arg.address]_vars

\* a valid order:create has just been applied to a store that had an order
C1_Witness ==
    /\ last.ev = "order:create" /\ ValidCreatePayload(last.arg)
    /\ Len(orders) = 2
    /\ orders[2].status = Str("CREATED")

\* C2: order:assign for an existing order and a non-empty courierId sets the
\* order's courierId; the status becomes ASSIGNED exactly when it was
\* READY_FOR_PICKUP and is otherwise left as it was.
C2_AssignTransitionGated ==
    [][(/\ last'.ev = "order:assign"
        /\ IsObj(last'.arg)
        /\ last'.arg.orderId.s \in IdsOf(orders)
        /\ HasStr(last'.arg, "courierId") /\ last'.arg.courierId.s # "") =>
          LET id == last'.arg.orderId.s
              old == OrderOf(orders, id)
          IN /\ id \in IdsOf(orders')
             /\ OrderOf(orders', id).courierId = last'.arg.courierId
             /\ OrderOf(orders', id).status =
                  IF old.status = Str("READY_FOR_PICKUP") THEN Str("ASSIGNED") ELSE old.status]_vars

\* an assignment has just moved an order from READY_FOR_PICKUP to ASSIGNED
C2_Witness ==
    /\ last.ev = "order:assign" /\ IsObj(last.arg)
    /\ last.arg.orderId.s \in OrderIds
    /\ OrderOf(orders, last.arg.orderId.s).status = Str("ASSIGNED")
    /\ OrderOf(orders, last.arg.orderId.s).courierId = Str("k1")

\* the order a message is about ("" for orders:snapshot)
MsgOrderId(m) ==
    CASE m.ev \in {"order:created", "order:updated", "order:assigned", "order:deleted"} -> m.data.id.s
      [] m.ev = "location:delta" -> m.data.orderId.s
      [] OTHER -> ""

\* the rooms the event handled last targets
Targets ==
    CASE last.ev = "order:create" -> {"admins"}
      [] last.ev \in {"order:status", "location:update", "order:delete"} ->
            {"admins", "order:" \o last.arg.orderId.s}
      [] last.ev = "order:assign" ->
            {"admins", "order:" \o last.arg.orderId.s, "courier:" \o last.arg.courierId.s}
      [] OTHER -> {}

\* C3: a connection is delivered a message only as the unicast reply to its
\* own connect or order:watch, or as a member of a room the event targets;
\* a connection whose only room is order:A receives only messages about
\* order A, and never order:assigned, orders:snapshot or order:created.
C3_RoomIsolation ==
    \A c \in Conns :
        /\ sent[c] # <<>> =>
              \/ last.ev \in {"connection", "order:watch"} /\ c = last.conn
              \/ connState[c] = "connected" /\ rooms[c] \cap Targets # {}
        /\ \A A \in IDs :
              rooms[c] = {"order:" \o A} =>
                 \A i \in 1..Len(sent[c]) :
                    /\ sent[c][i].ev \notin {"order:assigned", "orders:snapshot", "order:created"}
                    /\ MsgOrderId(sent[c][i]) = A

\* an event on an existing order other than the one a watcher watches has
\* just reached somebody else and not the watcher
C3_Witness ==
    /\ last.ev \in {"order:status", "order:assign"}
    /\ IsObj(last.arg)
    /\ \E c, d \in Conns, A \in IDs :
          /\ connState[c] = "connected" /\ rooms[c] = {"order:" \o A}
          /\ last.arg.orderId.s # A
          /\ sent[c] = <<>>
          /\ sent[d] # <<>>

\* C4: after a valid order:create every member of admins has received
\* order:created with the new order and then orders:snapshot listing the
\* store after the insertion, and nobody else has received anything.
C4_CreateNotifiesAdminsOnly ==
    (last.ev = "order:create" /\ ValidCreatePayload(last.arg)) =>
        /\ Len(orders) >= 1
        /\ \A c \in Conns :
              IF InAdmins(c)
              THEN /\ Len(sent[c]) = 2
                   /\ IsOrderMsg(sent[c][1], "order:created", orders[Len(orders)])
                   /\ IsSnapshotOf(sent[c][2], orders)
              ELSE sent[c] = <<>>

\* an order has just been created with an admin and a non-admin connected:
\* the admin was told, the non-admin was not
C4_Witness ==
    /\ last.ev = "order:create" /\ ValidCreatePayload(last.arg)
    /\ \E c \in Conns : connState[c] = "connected" /\ ~InAdmins(c) /\ sent[c] = <<>>
    /\ \E c \in Conns : InAdmins(c) /\ Len(sent[c]) = 2 /\ Len(sent[c][2].data.items) = 1

\* C5: a connection that has just connected with role admin is in admins and
\* has been unicast one orders:snapshot listing the store as it is; and every
\* order in the store has been listed or announced to every member of admins.
C5_SnapshotFreshness ==
    /\ (last.ev = "connection" /\ last.arg = Str("admin")) =>
          /\ InAdmins(last.conn)
          /\ Len(sent[last.conn]) = 1
          /\ IsSnapshotOf(sent[last.conn][1], orders)
          /\ \A d \in Conns \ {last.conn} : sent[d] = <<>>
    /\ \A c \in Conns : InAdmins(c) => OrderIds \subseteq announced[c]

\* an admin has just connected to a store that already holds an order
C5_Witness ==
    /\ last.ev = "connection" /\ last.arg = Str("admin")
    /\ Len(orders) >= 1
    /\ Len(sent[last.conn]) = 1
    /\ Len(sent[last.conn][1].data.items) = Len(orders)

\* the six fields location:update reports, undefined where the report lacks one
ReportOf(ping) ==
    [courierId |-> Field(ping, "courierId"), lat |-> Field(ping, "lat"),
     lng |-> Field(ping, "lng"), heading |-> Field(ping, "heading"),
     speed |-> Field(ping, "speed"), ts |-> Field(ping, "ts")]

\* the received location:delta shows order id and exactly the defined fields of loc
CarriesReport(data, id, loc) ==
    /\ IsObj(data)
    /\ data.orderId = Str(id)
    /\ DOMAIN data = {"t", "orderId"} \cup {k \in DOMAIN loc : loc[k] # Undef}
    /\ \A k \in DOMAIN loc : loc[k] # Undef => data[k] = loc[k]

\* C6: a location:update for an existing order leaves the cache entry of
\* that order equal to that report, field by field (nothing of an earlier
\* report survives); no other step changes the value of an entry; and an
\* order:watch for an order with a cache entry unicasts exactly one
\* location:delta carrying that entry to the watcher and nothing to others.
C6_LatestLocationOnly ==
    [][/\ (/\ last'.ev = "location:update" /\ IsObj(last'.arg)
           /\ last'.arg.orderId.s \in IdsOf(orders)) =>
             /\ last'.arg.orderId.s \in DOMAIN lastLocationByOrder'
             /\ lastLocationByOrder'[last'.arg.orderId.s] = ReportOf(last'.arg)
       /\ \A id \in (DOMAIN lastLocationByOrder) \cap (DOMAIN lastLocationByOrder') :
             (last'.ev = "location:update" /\ IsObj(last'.arg) /\ last'.arg.orderId.s = id)
             \/ lastLocationByOrder'[id] = lastLocationByOrder[id]
       /\ (/\ last'.ev = "order:watch" /\ last'.arg.t = "string"
           /\ last'.arg.s \in DOMAIN lastLocationByOrder) =>
             /\ Len(sent'[last'.conn]) = 1
             /\ sent'[last'.conn][1].ev = "location:delta"
             /\ CarriesReport(sent'[last'.conn][1].data, last'.arg.s,
                              lastLocationByOrder[last'.arg.s])
             /\ \A d \in Conns \ {last'.conn} : sent'[d] = <<>>]_vars

\* after two reports for an order, an order:watch has just been backfilled
\* with the later one, which has no heading, and with nothing of the earlier
C6_Witness ==
    /\ last.ev = "order:watch" /\ last.arg = Str("o1")
    /\ "o1" \in DOMAIN reports /\ reports["o1"] = 2
    /\ Len(sent[last.conn]) = 1
    /\ sent[last.conn][1].data.ts = Num(2)
    /\ "heading" \notin DOMAIN sent[last.conn][1].data
    /\ lastLocationByOrder["o1"].heading = Undef

\* the message m is order:deleted {id}
IsDeleted(m, id) ==
    m.ev = "order:deleted" /\ m.data = [t |-> "object", id |-> Str(id)]

\* C7: order:delete for an existing order removes exactly that order from
\* the store and exactly its entry from the cache; a member of admins
\* receives order:deleted, a watcher of the order receives order:deleted,
\* and a member of admins then receives orders:snapshot listing the store
\* after the removal; nothing else is delivered.
C7_DeleteRemovesAndNotifies ==
    [][(/\ last'.ev = "order:delete" /\ IsObj(last'.arg)
        /\ last'.arg.orderId.s \in IdsOf(orders)) =>
          LET id == last'.arg.orderId.s
          IN /\ IdsOf(orders') = IdsOf(orders) \ {id}
             /\ Len(orders') = Len(orders) - 1
             /\ \A j \in IdsOf(orders') : OrderOf(orders', j) = OrderOf(orders, j)
             /\ DOMAIN lastLocationByOrder' = (DOMAIN lastLocationByOrder) \ {id}
             /\ \A k \in DOMAIN lastLocationByOrder' :
                   lastLocationByOrder'[k] = lastLocationByOrder[k]
             /\ \A c \in Conns :
                   LET n == Len(sent'[c])
                       a == IF InAdmins(c) THEN 1 ELSE 0
                       w == IF Watching(c, id) THEN 1 ELSE 0
                   IN /\ n = a + w + a
                      /\ \A i \in 1..(a + w) : IsDeleted(sent'[c][i], id)
                      /\ a = 1 => IsSnapshotOf(sent'[c][n], orders')]_vars

\* an order has just been deleted from a store of two, and an admin
\* watching it has received the three messages
C7_Witness ==
    /\ last.ev = "order:delete" /\ IsObj(last.arg)
    /\ last.arg.orderId.s \in issued \ OrderIds
    /\ Len(orders) = 1
    /\ \E c \in Conns : InAdmins(c) /\ Len(sent[c]) = 3

\* C8: order:delete for an identifier the store does not hold changes
\* neither the store, the cache nor any room, and delivers nothing.
C8_DeleteMissingIsNoOp ==
    [][(/\ last'.ev = "order:delete" /\ IsObj(last'.arg)
        /\ last'.arg.orderId.s \notin IdsOf(orders)) =>
          /\ orders' = orders
          /\ lastLocationByOrder' = lastLocationByOrder
          /\ rooms' = rooms
          /\ crashed' = crashed
          /\ \A c \in Conns : sent'[c] = <<>>]_vars

\* an order that was already deleted has just been deleted again, with an
\* admin connected, and nothing was delivered
C8_Witness ==
    /\ last.ev = "order:delete" /\ IsObj(last.arg)
    /\ last.arg.orderId.s \in issued \ OrderIds
    /\ \E c \in Conns : InAdmins(c)
    /\ Silent
    /\ ~crashed

\* C9: order:status for an identifier the store does not hold delivers
\* nothing and changes neither the store nor the cache.
C9_StatusMissingIsNoOp ==
    [][(/\ last'.ev = "order:status" /\ IsObj(last'.arg)
        /\ last'.arg.orderId.s \notin IdsOf(orders)) =>
          /\ orders' = orders
          /\ lastLocationByOrder' = lastLocationByOrder
          /\ crashed' = crashed
          /\ \A c \in Conns : sent'[c] = <<>>]_vars

\* order:status for an order that does not exist has just been handled
\* with an admin connected, while the store holds another order, and
\* nothing was delivered
C9_Witness ==
    /\ last.ev = "order:status" /\ IsObj(last.arg)
    /\ last.arg.orderId.s \notin OrderIds
    /\ \E c \in Conns : InAdmins(c)
    /\ Len(orders) >= 1
    /\ Silent
    /\ ~crashed

InboundEvents ==
    {"courier:join", "order:watch", "order:create", "order:status",
     "order:assign", "location:update", "order:delete"}

\* the payload has the shape the event's interface declares
WellFormed(ev, arg) ==
    CASE ev \in {"courier:join", "order:watch"} -> arg.t = "string"
      [] ev = "order:create" -> ValidCreatePayload(arg)
      [] ev = "order:status" -> IsObj(arg) /\ HasStr(arg, "orderId") /\ HasStr(arg, "status")
      [] ev = "order:assign" -> IsObj(arg) /\ HasStr(arg, "orderId") /\ HasStr(arg, "courierId")
      [] ev = "location:update" ->
            /\ IsObj(arg) /\ HasStr(arg, "orderId") /\ HasStr(arg, "courierId")
            /\ HasNum(arg, "lat") /\ HasNum(arg, "lng") /\ HasNum(arg, "ts")
      [] ev = "order:delete" -> IsObj(arg) /\ HasStr(arg, "orderId")
      [] OTHER -> TRUE

\* C10: an inbound event with a malformed payload does not end the process,
\* changes neither the store, the cache nor any room, and delivers nothing.
C10_MalformedInputIsDropped ==
    [][(last'.ev \in InboundEvents /\ ~WellFormed(last'.ev, last'.arg)) =>
          /\ crashed' = FALSE
          /\ orders' = orders
          /\ lastLocationByOrder' = lastLocationByOrder
          /\ rooms' = rooms
          /\ \A c \in Conns : sent'[c] = <<>>]_vars

\* C11: an order:create whose payload fails the precondition (absent, or a
\* required field missing or of the wrong type) is dropped: the store is
\* left as it was, so no identifier enters it, and nothing is delivered.
C11_InvalidCreateIsDropped ==
    [][(last'.ev = "order:create" /\ ~ValidCreatePayload(last'.arg)) =>
          /\ orders' = orders
          /\ IdsOf(orders') = IdsOf(orders)
          /\ \A c \in Conns : sent'[c] = <<>>]_vars

\* C12: order:assign is a no-op when the order does not exist or courierId
\* is empty: courierId and status of every order, the rest of the store
\* and the cache are unchanged, and no order:assigned or order:updated is
\* delivered.
C12_AssignRejectedIsNoOp ==
    [][(/\ last'.ev = "order:assign" /\ IsObj(last'.arg)
        /\ \/ last'.arg.orderId.s \notin IdsOf(orders)
           \/ Falsy(last'.arg.courierId)) =>
          /\ orders' = orders
          /\ lastLocationByOrder' = lastLocationByOrder
          /\ \A c \in Conns : \A i \in 1..Len(sent'[c]) :
                sent'[c][i].ev \notin {"order:assigned", "order:updated"}]_vars

\* the number of messages named ev among msgs
Count(msgs, ev) == Cardinality({i \in 1..Len(msgs) : msgs[i].ev = ev})

\* the connection c is a member of the room
Member(c, room) == connState[c] = "connected" /\ room \in rooms[c]

\* C13: an order:status event on a stored order is applied as a whole: once
\* it is handled the stored status is the status of that event, and every
\* member of admins or of the order's room has been delivered, by that
\* event, order:updated messages carrying the order as stored; when the
\* event handled just before was an order:status on the same order, what
\* that one delivered to the same members carried the status stored then,
\* so the two messages arrive in processing order and the last one carries
\* the stored status.
C13_StatusEventsAreAtomic ==
    [][(/\ last'.ev = "order:status" /\ IsObj(last'.arg)
        /\ last'.arg.orderId.s \in IdsOf(orders)) =>
          LET id == last'.arg.orderId.s
              o == OrderOf(orders', id)
              Receivers == {c \in Conns : Member(c, "admins") \/ Member(c, "order:" \o id)}
          IN /\ id \in IdsOf(orders')
             /\ o.status = last'.arg.status
             /\ \A c \in Receivers :
                   /\ sent'[c] # <<>>
                   /\ \A i \in 1..Len(sent'[c]) : IsOrderMsg(sent'[c][i], "order:updated", o)
             /\ (last.ev = "order:status" /\ IsObj(last.arg) /\ last.arg.orderId.s = id) =>
                   /\ OrderOf(orders, id).status = last.arg.status
                   /\ \A c \in Receivers :
                         /\ sent[c] # <<>>
                         /\ \A i \in 1..Len(sent[c]) :
                               IsOrderMsg(sent[c][i], "order:updated", OrderOf(orders, id))]_vars

\* order o1 has been written by two order:status events, the second one
\* handled last, and a connection that is both an admin and a watcher of
\* o1 has been delivered its order:updated messages
C13_Witness ==
    /\ last.ev = "order:status" /\ IsObj(last.arg) /\ last.arg.orderId.s = "o1"
    /\ "o1" \in DOMAIN writes /\ writes["o1"] = 2
    /\ "o1" \in OrderIds /\ OrderOf(orders, "o1").status = Str("bogus")
    /\ \E c \in Conns : InAdmins(c) /\ Watching(c, "o1") /\ Count(sent[c], "order:updated") = 2

\* the message an event that targets admins and the order's room sends to both
BothRoomsMsg(ev) ==
    CASE ev \in {"order:status", "order:assign"} -> "order:updated"
      [] ev = "location:update" -> "location:delta"
      [] ev = "order:delete" -> "order:deleted"

\* C14: deliveries are not deduplicated across rooms: when order:status,
\* order:assign, location:update or order:delete acts on a stored order, a
\* connection in both admins and the order's room is delivered the event's
\* message (order:updated, location:delta, order:deleted) exactly twice, a
\* connection in exactly one of the two rooms exactly once, and a
\* connection in neither not at all.
C14_NoDeduplicationAcrossRooms ==
    [][(/\ last'.ev \in {"order:status", "order:assign", "location:update", "order:delete"}
        /\ IsObj(last'.arg)
        /\ last'.arg.orderId.s \in IdsOf(orders)
        /\ last'.ev = "order:assign" => ~Falsy(last'.arg.courierId)) =>
          \A c \in Conns :
              Count(sent'[c], BothRoomsMsg(last'.ev)) =
                  (IF Member(c, "admins") THEN 1 ELSE 0)
                  + (IF Member(c, "order:" \o last'.arg.orderId.s) THEN 1 ELSE 0)]_vars

\* a location report has just been relayed: one connection, in admins and
\* in the order's room, got it twice, and another, in one of the two rooms
\* only, got it once
C14_Witness ==
    /\ last.ev = "location:update" /\ IsObj(last.arg)
    /\ \E c, d \in Conns :
          /\ InAdmins(c) /\ Watching(c, last.arg.orderId.s)
          /\ Count(sent[c], "location:delta") = 2
          /\ InAdmins(d) # Watching(d, last.arg.orderId.s)
          /\ Count(sent[d], "location:delta") = 1

\* C15: when a connection disconnects it is in no room any more, the store
\* and the cache are as they were and nothing is delivered to anyone; the
\* disconnect of a connection that was in no room changes no room; and
\* after every step a disconnected connection is in no room and has been
\* delivered nothing.
C15_DisconnectReleasesRooms ==
    [][/\ \A c \in Conns :
            (connState[c] = "connected" /\ connState'[c] = "disconnected") =>
                /\ rooms'[c] = {}
                /\ \A d \in Conns \ {c} : rooms'[d] = rooms[d]
                /\ rooms[c] = {} => rooms' = rooms
                /\ orders' = orders
                /\ lastLocationByOrder' = lastLocationByOrder
                /\ \A d \in Conns : sent'[d] = <<>>
       /\ \A c \in Conns :
            connState'[c] = "disconnected" =>
                /\ connState[c] # "new"
                /\ rooms'[c] = {}
                /\ sent'[c] = <<>>]_vars

\* a connection has disconnected, and an order:create handled after that
\* has been announced to an admin that is still connected
C15_Witness ==
    /\ \E c \in Conns : connState[c] = "disconnected"
    /\ last.ev = "order:create"
    /\ \E d \in Conns : InAdmins(d) /\ sent[d] # <<>>

\* C16: order:status on a stored order overwrites the status with the
\* value given, whatever it is and whatever the status was: the store keeps
\* its orders in place, only the status field of that order changes, the
\* cache and the rooms are unchanged, and every member of admins and of the
\* order's room is delivered order:updated showing the new status.
C16_StatusOverwritesUnconditionally ==
    [][(/\ last'.ev = "order:status" /\ IsObj(last'.arg)
        /\ last'.arg.orderId.s \in IdsOf(orders)) =>
          LET id == last'.arg.orderId.s
          IN /\ Len(orders') = Len(orders)
             /\ \A i \in 1..Len(orders) :
                   orders'[i] = IF orders[i].id.s = id
                                THEN [orders[i] EXCEPT !.status = last'.arg.status]
                                ELSE orders[i]
             /\ lastLocationByOrder' = lastLocationByOrder
             /\ rooms' = rooms
             /\ crashed' = crashed
             /\ \A c \in Conns : \A room \in {"admins", "order:" \o id} :
                   Member(c, room) =>
                       \E i \in 1..Len(sent'[c]) :
                           /\ sent'[c][i].ev = "order:updated"
                           /\ sent'[c][i].data.id = Str(id)
                           /\ sent'[c][i].data.status = last'.arg.status]_vars

\* a status outside the lifecycle has just been stored for an order that a
\* courier had been assigned to, and an admin and a watcher were told
C16_Witness ==
    /\ last.ev = "order:status" /\ IsObj(last.arg)
    /\ last.arg.status = Str("bogus")
    /\ last.arg.orderId.s \in OrderIds
    /\ OrderOf(orders, last.arg.orderId.s).status = Str("bogus")
    /\ OrderOf(orders, last.arg.orderId.s).courierId = Str("k1")
    /\ \E c \in Conns : InAdmins(c) /\ Count(sent[c], "order:updated") = 1
    /\ \E c \in Conns : ~InAdmins(c) /\ Watching(c, last.arg.orderId.s)
                          /\ Count(sent[c], "order:updated") = 1

\* C17: the rooms change only in a connection with role admin, a
\* courier:join with a non-empty courierId, an order:watch with a non-empty
\* orderId, or a disconnect; a courier:join or order:watch with an empty
\* identifier and every order:create, order:status, order:assign,
\* location:update and order:delete leave every room as it was.
C17_MembershipChangesOnlyByJoining ==
    [][rooms' # rooms =>
          \/ last'.ev = "connection" /\ last'.arg = Str("admin")
          \/ last'.ev \in {"courier:join", "order:watch"} /\ ~Falsy(last'.arg)
          \/ last'.ev = "disconnect"]_vars

\* C18: every order identifier that has a Location Cache entry also has an
\* order in the Order Store, so the location an order:watch is answered
\* with is never that of an order the store does not hold.
C18_CacheWithinStore ==
    /\ DOMAIN lastLocationByOrder \subseteq OrderIds
    /\ last.ev = "order:watch" =>
          \A c \in Conns : \A i \in 1..Len(sent[c]) :
              sent[c][i].ev = "location:delta" => sent[c][i].data.orderId.s \in OrderIds

\* the cache holds the location of an order of the store while another
\* order, created earlier, has been deleted
C18_Witness ==
    /\ "o1" \in issued \ OrderIds
    /\ "o2" \in DOMAIN lastLocationByOrder
    /\ "o2" \in OrderIds

\* C19: for every member of admins, the orders:snapshot it was sent last
\* lists exactly the identifiers the store holds, and for every order of the
\* store the message sent to it last that carried the order
\* (orders:snapshot, order:created, order:updated or order:assigned) shows
\* the order's current status and courierId.
C19_AdminReplicaIsCurrent ==
    \A c \in Conns :
        InAdmins(c) =>
            /\ replica[c].ids = OrderIds
            /\ \A id \in OrderIds :
                  /\ id \in DOMAIN replica[c].shown
                  /\ Field(replica[c].shown[id], "status") = OrderOf(orders, id).status
                  /\ Field(replica[c].shown[id], "courierId") = OrderOf(orders, id).courierId

\* an admin has seen two orders created, the first one deleted and the
\* second one assigned to a courier, and has last been shown exactly that
C19_Witness ==
    /\ last.ev = "order:assign"
    /\ "o1" \in issued \ OrderIds
    /\ "o2" \in OrderIds /\ OrderOf(orders, "o2").courierId = Str("k1")
    /\ \E c \in Conns :
          /\ InAdmins(c)
          /\ replica[c].ids = {"o2"}
          /\ Count(sent[c], "order:updated") = 1

\* handshake roles that differ from "admin" in case, length or content
OtherRoles ==
    {Str(""), Str("guest"), Str("Admin"), Str("ADMIN"), Str("admin "), Str("admins")}

\* arguments a client may give to courier:join and order:watch
RoomArgs ==
    {Str("admins"), Str(":admins"), Str("k1"), Str("o1"), Str(""), Undef, Num(0)}

\* C20: a connection is in admins exactly when it connected with the
\* handshake role "admin" and has not disconnected; only the role "admin"
\* is read as admin; no argument of courier:join or order:watch names the
\* admins room, and after either event the membership of admins is as
\* before; a connection with another role has never been delivered
\* orders:snapshot or order:created.
C20_AdminsIsByHandshakeOnly ==
    /\ \A c \in Conns :
          ("admins" \in rooms[c]) <=>
              (connState[c] = "connected" /\ handshake[c] = Str("admin"))
    /\ RoleOf(Str("admin")) = "admin"
    /\ \A role \in OtherRoles : RoleOf(role) # "admin"
    /\ \A a \in RoomArgs : CourierRoom(a) # AdminsRoom /\ OrderRoom(a) # AdminsRoom
    /\ \A c \in Conns :
          handshake[c] # Str("admin") =>
              /\ announced[c] = {}
              /\ \A i \in 1..Len(sent[c]) :
                    sent[c][i].ev \notin {"orders:snapshot", "order:created"}

\* a connection without the admin role has joined a courier room and
\* watches an order, an order has just been created and announced to an
\* admin, and the first connection was told nothing
C20_Witness ==
    /\ last.ev = "order:create"
    /\ \E c, d \in Conns :
          /\ connState[c] = "connected" /\ handshake[c] # Str("admin")
          /\ "courier:k1" \in rooms[c] /\ "order:o1" \in rooms[c]
          /\ ~InAdmins(c) /\ sent[c] = <<>>
          /\ InAdmins(d) /\ Count(sent[d], "order:created") = 1

====
